---------------------------- MODULE Spec2Model ----------------------------
(***************************************************************************)
(* A model of sma_trade.py: one run of the script (download the price      *)
(* history, compute SMA5 / EMA20 / SMA180, pick the last valid row,         *)
(* classify it, look the state up in the strategy map, print the report,   *)
(* send the e-mail).                                                        *)
(*                                                                         *)
(* Conventions                                                             *)
(*  - a Python str is a sequence of atoms; an indicator name is one atom,  *)
(*    every character of the separator ' > ' is one atom;                  *)
(*  - a float is a fixed-point integer (thousandths); NaN is a value of    *)
(*    its own; an allocation is kept in tenths (0.7 is 7);                 *)
(*  - a date is a day number; row i of the history carries date i.         *)
(***************************************************************************)
EXTENDS Integers, Sequences, FiniteSets

VARIABLES
    pc,                  \* position of the script
    history,             \* what the price provider holds for the ticker
    today,               \* the wall-clock date, datetime.now()
    EMAIL_SENDER,        \* os.getenv("EMAIL_ADDRESS")
    EMAIL_PASSWORD,      \* os.getenv("EMAIL_PASSWORD")
    EMAIL_RECEIVER,      \* os.getenv("EMAIL_TO_1")
    strategy_map_config, \* the table get_current_recommendation is called with
    data,                \* the DataFrame of get_current_recommendation
    last_valid_row,      \* data.dropna().iloc[-1]
    last_date,           \* the date of last_valid_row
    current_state,       \* get_sma_state(last_valid_row)
    recommendation,      \* what get_current_recommendation returned
    stdout,              \* the lines printed so far
    smtp_ops,            \* the calls made on the mail transport so far
    exception            \* the exception that ended the run, if any

vars == <<pc, history, today, EMAIL_SENDER, EMAIL_PASSWORD, EMAIL_RECEIVER,
          strategy_map_config, data, last_valid_row, last_date,
          current_state, recommendation, stdout, smtp_ops, exception>>

---------------------------------------------------------------------------
(* Bounds of the model *)

\* rows of history beyond the 180 that SMA180 needs
MaxExtra == 2
\* how many of the latest rows may lack a value in another column
MaxNaNTail == 2
\* indicator values of a row handed to get_sma_state on its own: 1..MaxVal
MaxVal == 3

(* Program constants *)

\* data['Close'].rolling(5)
SMA5_WINDOW == 5
\* data['Close'].rolling(180)
SMA180_WINDOW == 180
\* data['Close'].ewm(com=20, adjust=False)
EMA20_COM == 20

---------------------------------------------------------------------------
(* Values *)

\* Python's None, as the value of an environment variable that is not set
None == "None"
\* Python's None, as the result of get_sma_state
NoState == <<>>
\* the result of a function that has not returned
NoValue == [returned |-> FALSE]

\* a float that is not a number
NaN == [def |-> FALSE, v |-> 0]
Num(x) == [def |-> TRUE, v |-> x]
\* pd.isna
isna(x) == ~x.def

\* a price p as a fixed-point float
Fix(p) == p * 1000

\* a str made of one atom
Str(a) == <<a>>
\* the separator of the strategy keys, ' > '
SEP == <<" ", ">", " ">>

LABEL_DOWNLOAD_FAILED == Str("download failed")
LABEL_INSUFFICIENT == Str("SMA not computable (insufficient data)")

---------------------------------------------------------------------------
(* str.split and str.join *)

\* does sep occur in s at position i
MatchAt(s, sep, i) ==
    /\ i + Len(sep) - 1 <= Len(s)
    /\ \A j \in 1..Len(sep) : s[i + j - 1] = sep[j]

RECURSIVE SplitFrom(_, _, _, _)
\* s.split(sep), scanning from i with the current piece cur
SplitFrom(s, sep, i, cur) ==
    IF i > Len(s) THEN <<cur>>
    ELSE IF MatchAt(s, sep, i)
         THEN <<cur>> \o SplitFrom(s, sep, i + Len(sep), <<>>)
         ELSE SplitFrom(s, sep, i + 1, Append(cur, s[i]))

\* the mutant of split: the key is cut at '>', the blanks stay in the pieces
split_at_gt(s, sep) == SplitFrom(s, <<">">>, 1, <<>>)

\* tuple(s.split(sep))
split(s, sep) == SplitFrom(s, sep, 1, <<>>)

RECURSIVE join(_, _)
\* sep.join(parts)
join(sep, parts) ==
    IF Len(parts) = 0 THEN <<>>
    ELSE IF Len(parts) = 1 THEN parts[1]
    ELSE parts[1] \o sep \o join(sep, Tail(parts))

\* the key 'a > b > c'
Key3(a, b, c) == join(SEP, <<Str(a), Str(b), Str(c)>>)

---------------------------------------------------------------------------
(* my_strategy *)

my_strategy ==
    << <<Key3("SMA5", "EMA20", "SMA180"), 7>>,
       <<Key3("EMA20", "SMA5", "SMA180"), 10>>,
       <<Key3("SMA5", "SMA180", "EMA20"), 4>>,
       <<Key3("EMA20", "SMA180", "SMA5"), 0>>,
       <<Key3("SMA180", "SMA5", "EMA20"), 4>>,
       <<Key3("SMA180", "EMA20", "SMA5"), 1>> >>

---------------------------------------------------------------------------
(* get_sma_state *)

\* the mutant of InsertDesc: an item goes before the items of equal value
InsertDescBeforeEqual(sorted, item) ==
    LET n == Cardinality({i \in 1..Len(sorted) : sorted[i][2].v > item[2].v})
    IN  SubSeq(sorted, 1, n) \o <<item>> \o SubSeq(sorted, n + 1, Len(sorted))

\* one step of the stable descending sort: item goes after every item whose
\* value is greater than or equal to its own
InsertDesc(sorted, item) ==
    LET n == Cardinality({i \in 1..Len(sorted) : sorted[i][2].v >= item[2].v})
    IN  SubSeq(sorted, 1, n) \o <<item>> \o SubSeq(sorted, n + 1, Len(sorted))

RECURSIVE SortedDescFrom(_, _, _)
SortedDescFrom(items, i, acc) ==
    IF i > Len(items) THEN acc
    ELSE SortedDescFrom(items, i + 1, InsertDesc(acc, items[i]))

\* sorted(items, key=lambda item: item[1], reverse=True)
sorted_reverse(items) == SortedDescFrom(items, 1, <<>>)

\* the mutant of AnyNaN: SMA180 is not looked at
AnyNaNButSMA180(row) == isna(row.SMA5) \/ isna(row.EMA20)

\* pd.isna(row['SMA5']) or pd.isna(row['EMA20']) or pd.isna(row['SMA180'])
AnyNaN(row) == isna(row.SMA5) \/ isna(row.EMA20) \/ isna(row.SMA180)

\* the dict smas, in insertion order
smas(row) ==
    << <<Str("SMA5"), row.SMA5>>,
       <<Str("EMA20"), row.EMA20>>,
       <<Str("SMA180"), row.SMA180>> >>

get_sma_state(row) ==
    IF AnyNaN(row) THEN NoState
    ELSE LET s == sorted_reverse(smas(row))
         IN  [i \in 1..Len(s) |-> s[i][1]]

---------------------------------------------------------------------------
(* the lookup of get_current_recommendation *)

\* d[k] = v on a dict
DictSet(d, k, v) == [x \in (DOMAIN d) \cup {k} |-> IF x = k THEN v ELSE d[x]]

\* d.get(k, default)
DictGet(d, k, default) == IF k \in DOMAIN d THEN d[k] ELSE default

RECURSIVE StrategyMapFrom(_, _, _)
StrategyMapFrom(config, i, acc) ==
    IF i > Len(config) THEN acc
    ELSE StrategyMapFrom(config, i + 1,
                         DictSet(acc, split(config[i][1], SEP), config[i][2]))

RECURSIVE StrKeyMapFrom(_, _, _)
StrKeyMapFrom(config, i, acc) ==
    IF i > Len(config) THEN acc
    ELSE StrKeyMapFrom(config, i + 1, DictSet(acc, config[i][1], config[i][2]))

\* the mutant of strategy_map: the str keys are kept as they are
strategy_map_unsplit(config) == StrKeyMapFrom(config, 1, <<>>)

\* the loop that turns the str keys into tuples
strategy_map(config) == StrategyMapFrom(config, 1, <<>>)

---------------------------------------------------------------------------
(* The indicator columns *)

RECURSIVE WindowSum(_, _, _)
\* the sum of col[lo..hi], by halves
WindowSum(col, lo, hi) ==
    IF lo > hi THEN 0
    ELSE IF lo = hi THEN col[lo].v
    ELSE LET mid == (lo + hi) \div 2
         IN  WindowSum(col, lo, mid) + WindowSum(col, mid + 1, hi)

\* col.rolling(w).mean(): NaN until w observations, all of them numbers
rolling_mean(col, w) ==
    [i \in 1..Len(col) |->
        IF i < w \/ \E j \in (i - w + 1)..i : isna(col[j])
        THEN NaN
        ELSE Num(WindowSum(col, i - w + 1, i) \div w)]

\* one step of the exponential average:
\* y[t] = y[t-1] + (x[t] - y[t-1]) / (1 + com)
EwmStep(prev, x, com) == Num((com * prev.v + x.v) \div (com + 1))

RECURSIVE EwmRange(_, _, _, _, _)
\* y[lo..hi] from y[lo-1] = prev, by halves
EwmRange(col, com, prev, lo, hi) ==
    IF lo > hi THEN <<>>
    ELSE IF lo = hi THEN <<EwmStep(prev, col[lo], com)>>
    ELSE LET mid  == (lo + hi) \div 2
             left == EwmRange(col, com, prev, lo, mid)
         IN  left \o EwmRange(col, com, left[Len(left)], mid + 1, hi)

\* col.ewm(com=com, adjust=False).mean() of a column without NaN: y[1] = x[1]
ewm_mean(col, com) ==
    IF Len(col) = 0 THEN <<>>
    ELSE <<col[1]>> \o EwmRange(col, com, col[1], 2, Len(col))

\* the frame with the columns SMA5, EMA20 and SMA180 added
with_indicators(d) ==
    LET close  == [i \in 1..Len(d) |-> d[i].Close]
        sma5   == rolling_mean(close, SMA5_WINDOW)
        ema20  == ewm_mean(close, EMA20_COM)
        sma180 == rolling_mean(close, SMA180_WINDOW)
    IN  [i \in 1..Len(d) |->
            [date |-> d[i].date, Close |-> d[i].Close, Volume |-> d[i].Volume,
             SMA5 |-> sma5[i], EMA20 |-> ema20[i], SMA180 |-> sma180[i]]]

\* a row dropna() keeps: no column of it is NaN
NoNaN(row) ==
    /\ ~isna(row.Close) /\ ~isna(row.Volume)
    /\ ~isna(row.SMA5) /\ ~isna(row.EMA20) /\ ~isna(row.SMA180)

\* data.dropna()
dropna(d) == SelectSeq(d, NoNaN)

---------------------------------------------------------------------------
(* The price provider: what yf.download may return *)

\* the closing price of day i
ClosePrice(pattern, i) ==
    CASE pattern = "flat"    -> 100
      [] pattern = "rising"  -> 100 + i
      [] pattern = "falling" -> 400 - i

Patterns == {"flat", "rising", "falling"}

Lengths ==
    {0, SMA5_WINDOW - 1, SMA5_WINDOW}
        \cup ((SMA180_WINDOW - 1)..(SMA180_WINDOW + MaxExtra))

\* n daily bars; the k-th latest bar has no Volume when k is in gaps
MakeHistory(n, pattern, gaps) ==
    [i \in 1..n |->
        [date |-> i, Close |-> Num(Fix(ClosePrice(pattern, i))),
         Volume |-> IF (n - i + 1) \in gaps THEN NaN ELSE Num(1)]]

Histories ==
    {MakeHistory(n, p, g) :
        n \in Lengths, p \in Patterns, g \in SUBSET (1..MaxNaNTail)}

\* the value of an environment variable: not set, empty, or set
EnvValues == {None, "", "set"}

---------------------------------------------------------------------------
(* Printed lines and returned values *)

Line(tag, arg) == [tag |-> tag, arg |-> arg]
print(tag, arg) == stdout' = Append(stdout, Line(tag, arg))

\* return current_state_str, current_alloc, last_date
Ret(state_str, alloc, date) ==
    [returned |-> TRUE, state_str |-> state_str, alloc |-> alloc, date |-> date]

\* f"{current_alloc * 100:.0f}" of an allocation in tenths
Percent(alloc) == alloc * 10

\* not all([sender, password, receiver])
Falsy(x) == x = None \/ x = ""

---------------------------------------------------------------------------
(* The script *)

Init ==
    /\ pc = "start"
    /\ history \in Histories
    /\ today = Len(history) + 1
    /\ EMAIL_SENDER \in EnvValues
    /\ EMAIL_PASSWORD \in EnvValues
    /\ EMAIL_RECEIVER \in EnvValues
    /\ strategy_map_config = my_strategy
    /\ data = <<>>
    /\ last_valid_row = NoValue
    /\ last_date = 0
    /\ current_state = NoState
    /\ recommendation = NoValue
    /\ stdout = <<>>
    /\ smtp_ops = <<>>
    /\ exception = "none"

\* the mutant of empty: no frame counts as empty
emptyNever(d) == FALSE

\* data.empty
empty(d) == Len(d) = 0

\* lines 46-49: the download
Download ==
    /\ pc = "start"
    /\ print("downloading", <<>>)
    /\ data' = history
    /\ pc' = "downloaded"
    /\ UNCHANGED <<history, today, EMAIL_SENDER, EMAIL_PASSWORD, EMAIL_RECEIVER,
                   strategy_map_config, current_state, last_valid_row, last_date,
                   recommendation, smtp_ops, exception>>

\* lines 51-53: the frame is empty
ReturnDownloadFailed ==
    /\ pc = "downloaded"
    /\ empty(data)
    /\ print("download_failed", <<>>)
    /\ recommendation' = Ret(LABEL_DOWNLOAD_FAILED, 0, today)
    /\ pc' = "format"
    /\ UNCHANGED <<history, today, EMAIL_SENDER, EMAIL_PASSWORD, EMAIL_RECEIVER,
                   strategy_map_config, current_state, data, last_valid_row, last_date,
                   smtp_ops, exception>>

\* lines 51-61: the frame is not empty; the three columns are added
ComputeIndicators ==
    /\ pc = "downloaded"
    /\ ~empty(data)
    /\ data' = with_indicators(data)
    /\ pc' = "select"
    /\ UNCHANGED <<history, today, EMAIL_SENDER, EMAIL_PASSWORD, EMAIL_RECEIVER,
                   strategy_map_config, current_state, last_valid_row, last_date,
                   recommendation, stdout, smtp_ops, exception>>

\* lines 64-65: the last row of data.dropna()
SelectLastValidRow ==
    /\ pc = "select"
    /\ dropna(data) # <<>>
    /\ LET valid == dropna(data)
       IN  /\ last_valid_row' = valid[Len(valid)]
           /\ last_date' = valid[Len(valid)].date
    /\ pc' = "classify"
    /\ UNCHANGED <<history, today, EMAIL_SENDER, EMAIL_PASSWORD, EMAIL_RECEIVER,
                   strategy_map_config, current_state, data, recommendation, stdout,
                   smtp_ops, exception>>

\* line 64: .iloc[-1] of an empty frame raises IndexError, which nothing
\* catches: the script ends with a traceback
RaiseIndexError ==
    /\ pc = "select"
    /\ dropna(data) = <<>>
    /\ exception' = "IndexError"
    /\ data' = <<>>
    /\ pc' = "crashed"
    /\ UNCHANGED <<history, today, EMAIL_SENDER, EMAIL_PASSWORD, EMAIL_RECEIVER,
                   strategy_map_config, current_state, last_valid_row, last_date,
                   recommendation, stdout, smtp_ops>>

\* lines 68-84: classify last_valid_row, look the state up, return
Classify ==
    /\ pc = "classify"
    /\ current_state' = get_sma_state(last_valid_row)
    /\ IF current_state' = NoState
       THEN /\ print("insufficient", <<>>)
            /\ recommendation' = Ret(LABEL_INSUFFICIENT, 0, last_date)
       ELSE /\ recommendation' =
                   Ret(join(SEP, current_state'),
                       DictGet(strategy_map(strategy_map_config),
                               current_state', 0),
                       last_date)
            /\ UNCHANGED stdout
    /\ data' = <<>>
    /\ pc' = "format"
    /\ UNCHANGED <<history, today, EMAIL_SENDER, EMAIL_PASSWORD, EMAIL_RECEIVER,
                   strategy_map_config, last_valid_row, last_date,
                   smtp_ops, exception>>

\* the text of email_body
email_body(r) ==
    [date |-> r.date, state |-> r.state_str, percent |-> Percent(r.alloc)]

\* lines 117-141: the subject and the body are built, the body is printed
PrintReport ==
    /\ pc = "format"
    /\ stdout' = stdout \o <<Line("report_header", <<>>),
                             Line("report", email_body(recommendation)),
                             Line("report_rule", <<>>)>>
    /\ pc' = "send_email"
    /\ UNCHANGED <<history, today, EMAIL_SENDER, EMAIL_PASSWORD, EMAIL_RECEIVER,
                   strategy_map_config, current_state, data, last_valid_row, last_date,
                   recommendation, smtp_ops, exception>>

\* the mutant of NotConfigured: the receiver is not looked at
NotConfiguredButReceiver(sender, password, receiver) ==
    Falsy(sender) \/ Falsy(password)

\* not all([sender, password, receiver])
NotConfigured(sender, password, receiver) ==
    Falsy(sender) \/ Falsy(password) \/ Falsy(receiver)

\* lines 89-91: send_email without the three values
SendEmailSkip ==
    /\ pc = "send_email"
    /\ NotConfigured(EMAIL_SENDER, EMAIL_PASSWORD, EMAIL_RECEIVER)
    /\ print("email_not_configured", <<>>)
    /\ pc' = "done"
    /\ UNCHANGED <<history, today, EMAIL_SENDER, EMAIL_PASSWORD, EMAIL_RECEIVER,
                   strategy_map_config, current_state, data, last_valid_row, last_date,
                   recommendation, smtp_ops, exception>>

\* lines 93-101: the attempt is announced and the message is built
SendEmailBegin ==
    /\ pc = "send_email"
    /\ ~NotConfigured(EMAIL_SENDER, EMAIL_PASSWORD, EMAIL_RECEIVER)
    /\ print("email_attempt", EMAIL_RECEIVER)
    /\ pc' = "smtp_connect"
    /\ UNCHANGED <<history, today, EMAIL_SENDER, EMAIL_PASSWORD, EMAIL_RECEIVER,
                   strategy_map_config, current_state, data, last_valid_row, last_date,
                   recommendation, smtp_ops, exception>>

\* the mutant of Handler: the failure is raised again
HandlerReraise(cause) ==
    /\ print("email_failure", cause)
    /\ exception' = cause
    /\ pc' = "crashed"

\* lines 107-108: except Exception as e: the failure is printed
Handler(cause) ==
    /\ print("email_failure", cause)
    /\ exception' = exception
    /\ pc' = "done"

\* line 103: SMTP_SSL(...) connects, or raises
SmtpConnect ==
    /\ pc = "smtp_connect"
    /\ \E ok \in BOOLEAN :
          IF ok THEN /\ smtp_ops' = Append(smtp_ops, "connect")
                     /\ pc' = "smtp_login"
                     /\ UNCHANGED <<stdout, exception>>
                ELSE /\ smtp_ops' = Append(smtp_ops, "connect failed")
                     /\ Handler("connect failed")
    /\ UNCHANGED <<history, today, EMAIL_SENDER, EMAIL_PASSWORD, EMAIL_RECEIVER,
                   strategy_map_config, current_state, data, last_valid_row, last_date,
                   recommendation>>

\* line 104: server.login; when it raises, the with block closes the
\* connection on the way to the handler
SmtpLogin ==
    /\ pc = "smtp_login"
    /\ \E ok \in BOOLEAN :
          IF ok THEN /\ smtp_ops' = Append(smtp_ops, "login")
                     /\ pc' = "smtp_send"
                     /\ UNCHANGED <<stdout, exception>>
                ELSE /\ smtp_ops' = smtp_ops \o <<"login failed", "quit">>
                     /\ Handler("login failed")
    /\ UNCHANGED <<history, today, EMAIL_SENDER, EMAIL_PASSWORD, EMAIL_RECEIVER,
                   strategy_map_config, current_state, data, last_valid_row, last_date,
                   recommendation>>

\* line 105: server.send_message
SmtpSend ==
    /\ pc = "smtp_send"
    /\ \E ok \in BOOLEAN :
          IF ok THEN /\ smtp_ops' = Append(smtp_ops, "send_message")
                     /\ pc' = "smtp_quit"
                     /\ UNCHANGED <<stdout, exception>>
                ELSE /\ smtp_ops' = smtp_ops \o <<"send_message failed", "quit">>
                     /\ Handler("send_message failed")
    /\ UNCHANGED <<history, today, EMAIL_SENDER, EMAIL_PASSWORD, EMAIL_RECEIVER,
                   strategy_map_config, current_state, data, last_valid_row, last_date,
                   recommendation>>

\* the end of the with block: QUIT, which may raise as well
SmtpQuit ==
    /\ pc = "smtp_quit"
    /\ \E ok \in BOOLEAN :
          IF ok THEN /\ smtp_ops' = Append(smtp_ops, "quit")
                     /\ pc' = "smtp_sent"
                     /\ UNCHANGED <<stdout, exception>>
                ELSE /\ smtp_ops' = Append(smtp_ops, "quit failed")
                     /\ Handler("quit failed")
    /\ UNCHANGED <<history, today, EMAIL_SENDER, EMAIL_PASSWORD, EMAIL_RECEIVER,
                   strategy_map_config, current_state, data, last_valid_row, last_date,
                   recommendation>>

\* line 106: the success line
PrintSuccess ==
    /\ pc = "smtp_sent"
    /\ print("email_success", <<>>)
    /\ pc' = "done"
    /\ UNCHANGED <<history, today, EMAIL_SENDER, EMAIL_PASSWORD, EMAIL_RECEIVER,
                   strategy_map_config, current_state, data, last_valid_row, last_date,
                   recommendation, smtp_ops, exception>>

Next ==
    \/ Download
    \/ ReturnDownloadFailed
    \/ ComputeIndicators
    \/ SelectLastValidRow
    \/ RaiseIndexError
    \/ Classify
    \/ PrintReport
    \/ SendEmailSkip
    \/ SendEmailBegin
    \/ SmtpConnect
    \/ SmtpLogin
    \/ SmtpSend
    \/ SmtpQuit
    \/ PrintSuccess

Spec == Init /\ [][Next]_vars

---------------------------------------------------------------------------
(* get_sma_state and the lookup on their own: get_current_recommendation  *)
(* from line 68 on, for any row and any strategy table                     *)

\* an indicator value: NaN or 1..MaxVal
UnitValues == {NaN} \cup {Num(v) : v \in 1..MaxVal}

UnitRows ==
    {[date |-> 1, Close |-> Num(1), Volume |-> Num(1),
      SMA5 |-> a, EMA20 |-> b, SMA180 |-> c] :
        a \in UnitValues, b \in UnitValues, c \in UnitValues}

\* my_strategy and two keys that do not split into three names:
\* 'SMA5>EMA20>SMA180' and 'SMA5 > EMA20 > SMA180 > '
BaseConfig ==
    my_strategy \o
    << <<join(<<">">>, <<Str("SMA5"), Str("EMA20"), Str("SMA180")>>), 9>>,
       <<Key3("SMA5", "EMA20", "SMA180") \o SEP, 5>> >>

\* the entries of config at the positions in keep, in their order
SubConfig(config, keep) ==
    [j \in 1..Cardinality(keep) |->
        config[CHOOSE i \in keep : Cardinality({m \in keep : m <= i}) = j]]

\* every table made of entries of BaseConfig, the empty one included
Configs == {SubConfig(BaseConfig, keep) : keep \in SUBSET (1..Len(BaseConfig))}

InitUnit ==
    /\ pc = "classify"
    /\ history = <<>>
    /\ today = 1
    /\ EMAIL_SENDER = None
    /\ EMAIL_PASSWORD = None
    /\ EMAIL_RECEIVER = None
    /\ strategy_map_config \in Configs
    /\ data = <<>>
    /\ last_valid_row \in UnitRows
    /\ last_date = last_valid_row.date
    /\ current_state = NoState
    /\ recommendation = NoValue
    /\ stdout = <<>>
    /\ smtp_ops = <<>>
    /\ exception = "none"

NextUnit ==
    \/ Classify
    \/ PrintReport

SpecUnit == InitUnit /\ [][NextUnit]_vars

---------------------------------------------------------------------------
(* What the claims speak of *)

IndicatorNames == <<Str("SMA5"), Str("EMA20"), Str("SMA180")>>

\* the value of the indicator called name in row
ValueOf(row, name) ==
    CASE name = Str("SMA5")   -> row.SMA5
      [] name = Str("EMA20")  -> row.EMA20
      [] name = Str("SMA180") -> row.SMA180

\* the position of name in the tuple st
PosIn(st, name) == CHOOSE i \in 1..Len(st) : st[i] = name

\* SMA5, EMA20 and SMA180 of row are numbers
AllThreeDefined(row) ==
    ~isna(row.SMA5) /\ ~isna(row.EMA20) /\ ~isna(row.SMA180)

HasTag(tag) == \E i \in 1..Len(stdout) : stdout[i].tag = tag
LastTag == IF Len(stdout) = 0 THEN "" ELSE stdout[Len(stdout)].tag

\* get_current_recommendation has returned
Returned == recommendation.returned

\* lines 68-84 have run on last_valid_row
Classified == Returned /\ pc # "classify" /\ last_date # 0

\* the entries of the table whose key, split on ' > ', is the state
Matches(config, st) ==
    {i \in 1..Len(config) : split(config[i][1], SEP) = st}

\* an environment value that is absent or empty
Absent(x) == x \in {None, ""}
AnyAbsent == Absent(EMAIL_SENDER) \/ Absent(EMAIL_PASSWORD) \/ Absent(EMAIL_RECEIVER)

FailedOps ==
    {"connect failed", "login failed", "send_message failed", "quit failed"}
OpsOf(ops) == {ops[i] : i \in 1..Len(ops)}

StatusTags == {"email_not_configured", "email_success", "email_failure"}

---------------------------------------------------------------------------
(* The claims *)

\* C1: when the history is not empty and no row of it has SMA5, EMA20 and
\* SMA180 all defined, get_current_recommendation does not raise and returns
\* the insufficient-data label, allocation 0.0 and the latest date of the
\* history.
C1_InsufficientDataReported ==
    ( /\ pc = "crashed" \/ Returned
      /\ history # <<>>
      /\ SelectSeq(with_indicators(history), AllThreeDefined) = <<>> )
    => /\ exception = "none"
       /\ recommendation =
              Ret(LABEL_INSUFFICIENT, 0, history[Len(history)].date)

\* C2: when the provider returns an empty history, the function returns the
\* download-failed label, allocation 0.0 and today's date, and the script
\* never reaches the indicator computation, the row selection, the
\* classification or the lookup.
C2_EmptyHistoryShortCircuit ==
    (history = <<>> /\ pc \notin {"start", "downloaded"})
    => /\ pc \notin {"select", "classify", "crashed"}
       /\ recommendation = Ret(LABEL_DOWNLOAD_FAILED, 0, today)
       /\ last_date = 0
       /\ current_state = NoState
       /\ exception = "none"
       /\ HasTag("download_failed")
       /\ ~HasTag("insufficient")

C2_Witness ==
    /\ history = <<>>
    /\ pc = "done"
    /\ recommendation.date = today
    /\ recommendation.state_str = LABEL_DOWNLOAD_FAILED

\* C3: every run ends normally, having printed the report and after it a
\* delivery status line, and the mail transport is never touched before the
\* report is printed.
C3_AlwaysReports ==
    /\ pc # "crashed"
    /\ exception = "none"
    /\ pc = "done" =>
          \E i \in 1..Len(stdout) : \E j \in (i + 1)..Len(stdout) :
              stdout[i].tag = "report" /\ stdout[j].tag \in StatusTags
    /\ (smtp_ops # <<>> \/ HasTag("email_attempt")) => HasTag("report")

\* C4: with the receiver, the sender or the password absent or empty,
\* send_email never touches the mail transport; it prints the
\* not-configured line and returns without raising.
C4_NoTransportWhenUnconfigured ==
    AnyAbsent
    => /\ smtp_ops = <<>>
       /\ ~HasTag("email_attempt")
       /\ pc \notin {"smtp_connect", "smtp_login", "smtp_send",
                     "smtp_quit", "smtp_sent"}
       /\ pc = "done" => (exception = "none" /\ LastTag = "email_not_configured")

C4_Witness ==
    /\ pc = "done"
    /\ EMAIL_RECEIVER = ""
    /\ ~Absent(EMAIL_SENDER)
    /\ ~Absent(EMAIL_PASSWORD)
    /\ LastTag = "email_not_configured"
    /\ HasTag("report")

\* C5: with sender, password and receiver present, a failure of the
\* transport at any point is caught: the failure line with its cause is
\* printed, send_email returns and the script ends normally; the success
\* line is printed only after login and send_message both completed.
C5_TransportFailureCaught ==
    ~AnyAbsent
    => /\ \A op \in OpsOf(smtp_ops) \cap FailedOps :
              /\ pc = "done"
              /\ exception = "none"
              /\ LastTag = "email_failure"
              /\ stdout[Len(stdout)].arg = op
       /\ HasTag("email_failure") => OpsOf(smtp_ops) \cap FailedOps # {}
       /\ HasTag("email_success") =>
              /\ {"login", "send_message"} \subseteq OpsOf(smtp_ops)
              /\ OpsOf(smtp_ops) \cap FailedOps = {}

C5_Witness ==
    /\ ~AnyAbsent
    /\ pc = "done"
    /\ "login failed" \in OpsOf(smtp_ops)
    /\ LastTag = "email_failure"
    /\ exception = "none"

\* C6: get_sma_state returns None exactly when one of SMA5, EMA20, SMA180 of
\* the row is NaN; otherwise it returns a tuple that holds each of the three
\* names once, ordered by value descending.
C6_StateIffAllDefined ==
    Classified
    => /\ (current_state = NoState) <=> ~AllThreeDefined(last_valid_row)
       /\ current_state # NoState =>
             /\ Len(current_state) = 3
             /\ \A k \in 1..3 :
                   Cardinality({i \in 1..3 : current_state[i] = IndicatorNames[k]}) = 1
             /\ \A i \in 1..2 :
                   ValueOf(last_valid_row, current_state[i]).v
                       >= ValueOf(last_valid_row, current_state[i + 1]).v

C6_Witness ==
    /\ Classified
    /\ current_state = <<Str("SMA180"), Str("SMA5"), Str("EMA20")>>
    /\ last_valid_row.SMA180.v > last_valid_row.SMA5.v
    /\ last_valid_row.SMA5.v > last_valid_row.EMA20.v

\* C7: for a classified state and any table, the allocation returned is the
\* fraction of the entry whose key split on ' > ' is the state when there is
\* one, and 0.0 otherwise; nothing is raised, and the report shows that
\* allocation as a percentage (0% when the entry is missing).
C7_LookupOrZero ==
    (Classified /\ current_state # NoState)
    => LET m == Matches(strategy_map_config, current_state)
       IN  /\ exception = "none"
           /\ \A i \in m : recommendation.alloc = strategy_map_config[i][2]
           /\ m = {} => recommendation.alloc = 0
           /\ \A i \in 1..Len(stdout) :
                 stdout[i].tag = "report" =>
                     /\ stdout[i].arg.percent = 10 * recommendation.alloc
                     /\ m = {} => stdout[i].arg.percent = 0

C7_Witness ==
    /\ Classified
    /\ current_state = IndicatorNames
    /\ Matches(strategy_map_config, current_state) = {}
    /\ Len(strategy_map_config) = 2
    /\ recommendation.alloc = 0
    /\ \E i \in 1..Len(stdout) :
          stdout[i].tag = "report" /\ stdout[i].arg.percent = 0

\* C8: when some row has SMA5, EMA20 and SMA180 all defined, the row that is
\* classified is the latest such row, whatever its other columns hold, and
\* the reported date is the date of that row.
C8_LatestIndicatorRow ==
    pc = "classify"
    => LET full == SelectSeq(data, AllThreeDefined)
       IN  /\ full # <<>>
           /\ last_valid_row = full[Len(full)]
           /\ last_date = full[Len(full)].date

\* C9: for defined, pairwise distinct indicator values, the state matches
\* exactly one key of my_strategy split on ' > ', the allocation is that
\* entry's fraction, and joining the state with ' > ' and splitting it again
\* gives the state back (SMA5 > EMA20 > SMA180 gives 0.7).
C9_ReferenceTableCoversState ==
    ( /\ Classified
      /\ strategy_map_config = my_strategy
      /\ AllThreeDefined(last_valid_row)
      /\ last_valid_row.SMA5 # last_valid_row.EMA20
      /\ last_valid_row.SMA5 # last_valid_row.SMA180
      /\ last_valid_row.EMA20 # last_valid_row.SMA180 )
    => LET m == Matches(my_strategy, current_state)
       IN  /\ Cardinality(m) = 1
           /\ \A i \in m : recommendation.alloc = my_strategy[i][2]
           /\ recommendation.state_str = join(SEP, current_state)
           /\ split(recommendation.state_str, SEP) = current_state
           /\ current_state = IndicatorNames => recommendation.alloc = 7

C9_Witness ==
    /\ Classified
    /\ strategy_map_config = my_strategy
    /\ current_state = <<Str("EMA20"), Str("SMA5"), Str("SMA180")>>
    /\ last_valid_row.EMA20.v > last_valid_row.SMA5.v
    /\ last_valid_row.SMA5.v > last_valid_row.SMA180.v
    /\ recommendation.alloc = 10

\* C10: of two indicators with equal values, the one inserted first (SMA5
\* before EMA20 before SMA180) comes first in the state.
C10_TiesKeepInsertionOrder ==
    (Classified /\ current_state # NoState)
    => \A a \in 1..3 : \A b \in (a + 1)..3 :
          ValueOf(last_valid_row, IndicatorNames[a])
              = ValueOf(last_valid_row, IndicatorNames[b])
          => PosIn(current_state, IndicatorNames[a])
                 < PosIn(current_state, IndicatorNames[b])

C10_Witness ==
    /\ Classified
    /\ AllThreeDefined(last_valid_row)
    /\ last_valid_row.EMA20 = last_valid_row.SMA180
    /\ last_valid_row.SMA5.v < last_valid_row.EMA20.v
    /\ current_state = <<Str("EMA20"), Str("SMA180"), Str("SMA5")>>

=============================================================================
